---------------------------- MODULE Spec2Model ----------------------------
(***************************************************************************)
(* A model of templates/rust-worker/src/lib.rs: the `main` fetch handler   *)
(* of the Rust worker template.                                            *)
(*                                                                         *)
(*     let url  = req.url()?;                                   (line 6)   *)
(*     let data = serde_json::json!({ "message": .., "service": ..,        *)
(*                  "url": url.to_string(),                                *)
(*                  "timestamp": chrono::Utc::now().to_rfc3339() });       *)
(*                                                           (lines 9-14)  *)
(*     Response::from_json(&data)                              (line 17)   *)
(*                                                                         *)
(* Text is modelled as a sequence of one-character strings, so that the    *)
(* conversions the handler calls (URL parsing and re-serialisation, the    *)
(* RFC 3339 rendering of the clock, JSON encoding) are computed character  *)
(* by character.                                                           *)
(***************************************************************************)
EXTENDS Integers, Sequences, FiniteSets, TLC

VARIABLES
    clock,   \* the wall clock: [secs, nanos] since 1970-01-01T00:00:00Z
    ticks,   \* how many times the clock has advanced (bounded by MaxTicks)
    pc,      \* pc[i]: where invocation i of `main` stands
    req,     \* req[i]: the Request handed to invocation i
    env,     \* env[i]: the Env bindings handed to invocation i
    url,     \* url[i]: the local `url` of invocation i (line 6)
    now,     \* now[i]: the value chrono::Utc::now() returned to invocation i
    data,    \* data[i]: the local `data` of invocation i (lines 9-14)
    ret,     \* ret[i]: what invocation i returned (Ok(Response) or Err)
    log      \* log[i]: the steps invocation i has executed, in order

vars == <<clock, ticks, pc, req, env, url, now, data, ret, log>>

(***************************************************************************)
(* Bounds of the model.                                                    *)
(***************************************************************************)
NumInvocations == 2   \* invocations the runtime runs concurrently (ConcSpec)
MaxTicks == 3         \* clock advances in the one-invocation specification
MaxConcTicks == 2     \* clock advances in the concurrent specification

Inv == 1..NumInvocations

None == <<>>
Some(x) == <<x>>
IsSome(o) == o # <<>>
Unwrap(o) == o[1]

(***************************************************************************)
(* Characters.                                                             *)
(***************************************************************************)
UpperChars == <<"A","B","C","D","E","F","G","H","I","J","K","L","M",
                "N","O","P","Q","R","S","T","U","V","W","X","Y","Z">>
LowerChars == <<"a","b","c","d","e","f","g","h","i","j","k","l","m",
                "n","o","p","q","r","s","t","u","v","w","x","y","z">>
DigitChars == <<"0","1","2","3","4","5","6","7","8","9">>

Range(s) == { s[k] : k \in DOMAIN s }
IsUpper(c) == c \in Range(UpperChars)
IsLower(c) == c \in Range(LowerChars)
IsAlpha(c) == IsUpper(c) \/ IsLower(c)
IsDigit(c) == c \in Range(DigitChars)

\* char::to_ascii_lowercase
ToAsciiLowercase(c) ==
    IF IsUpper(c)
    THEN LowerChars[CHOOSE k \in DOMAIN UpperChars : UpperChars[k] = c]
    ELSE c

LowerStr(s) == [k \in DOMAIN s |-> ToAsciiLowercase(s[k])]

\* char::to_digit(10) of a decimal digit
DigitVal(c) == (CHOOSE k \in DOMAIN DigitChars : DigitChars[k] = c) - 1
DigitChar(n) == DigitChars[n + 1]

\* The least index >= from whose character is in `set`; Len(s)+1 when none.
FirstIn(s, from, set) ==
    CHOOSE k \in from..(Len(s) + 1) :
        /\ (k = Len(s) + 1 \/ s[k] \in set)
        /\ \A j \in from..(k - 1) : s[j] \notin set

\* The least index >= from whose character fails `ok`; Len(s)+1 when none.
FirstNotIn(s, from, ok) ==
    CHOOSE k \in from..(Len(s) + 1) :
        /\ (k = Len(s) + 1 \/ s[k] \notin ok)
        /\ \A j \in from..(k - 1) : s[j] \in ok


(***************************************************************************)
(* Decimal rendering of a natural number (Display for integers), padded    *)
(* with zeros to at least `width` characters.                              *)
(***************************************************************************)
RECURSIVE IntToStr(_)
IntToStr(n) ==
    IF n < 10 THEN <<DigitChar(n)>>
    ELSE IntToStr(n \div 10) \o <<DigitChar(n % 10)>>

RECURSIVE Pad(_, _)
Pad(n, width) ==
    IF width <= 1 THEN IntToStr(n)
    ELSE IF Len(IntToStr(n)) >= width THEN IntToStr(n)
    ELSE <<"0">> \o Pad(n, width - 1)

(***************************************************************************)
(* req.url(): url::Url::parse of the request's URL string, with no base    *)
(* URL.  The input domain of the model is URL strings over the characters  *)
(* of UrlInputs below: no userinfo ('@'), no '%', '[' or control           *)
(* characters (tab and newline among them), no                             *)
(* host whose last label is a number (IPv4 forms), and the schemes a       *)
(* worker is fetched with (http, https).                                   *)
(***************************************************************************)
ParseOk(u) == [ok |-> TRUE, url |-> u]
ParseErr(e) == [ok |-> FALSE, err |-> e]

SchemeChars ==
    Range(UpperChars) \cup Range(LowerChars) \cup Range(DigitChars)
        \cup {"+", "-", "."}

sHttp == <<"h","t","t","p">>
sHttps == <<"h","t","t","p","s">>
sWs == <<"w","s">>
sWss == <<"w","s","s">>

\* url::parser::default_port
DefaultPort(scheme) ==
    CASE scheme = sHttp -> 80
      [] scheme = sWs -> 80
      [] scheme = sHttps -> 443
      [] scheme = sWss -> 443

\* u16::MAX, the largest port parse_port accepts
MaxPort == 65535

\* url::parser::Parser::parse_port: digits accumulate until a character
\* that is no digit; any such character other than / \ ? # is an error, and
\* so is a value above u16::MAX.  p is the index after the ':'.
\* Returns [ok, port (-1: none), next].
RECURSIVE PortLoop(_, _, _, _)
PortLoop(s, p, acc, any) ==
    IF p > Len(s) THEN [ok |-> TRUE, port |-> IF any THEN acc ELSE -1, next |-> p]
    ELSE IF IsDigit(s[p])
         THEN LET v == acc * 10 + DigitVal(s[p]) IN
              IF v > MaxPort THEN [ok |-> FALSE, port |-> -1, next |-> p]
              ELSE PortLoop(s, p + 1, v, TRUE)
    ELSE IF s[p] \notin {"/", "\\", "?", "#"}
         THEN [ok |-> FALSE, port |-> -1, next |-> p]
    ELSE [ok |-> TRUE, port |-> IF any THEN acc ELSE -1, next |-> p]

ParsePort(s, p, scheme) ==
    LET r == PortLoop(s, p, 0, FALSE) IN
    IF r.ok /\ r.port = DefaultPort(scheme)
    THEN [r EXCEPT !.port = -1]
    ELSE r

\* Forbidden host code points (the deny list Host::parse hands to idna),
\* the printable ASCII ones; a host holding one is ParseError::IdnaError.
ForbiddenHostChars ==
    {" ", "#", "%", "/", ":", "<", ">", "?", "@", "[", "\\", "]", "^", "|"}

\* Percent-encode sets of url::parser (PATH, SPECIAL_QUERY, FRAGMENT), cut
\* to the printable ASCII characters (the grave accent left out).
FragmentSet == {" ", "\"", "<", ">"}
PathSet == FragmentSet \cup {"#", "?", "{", "}"}
SpecialQuerySet == {" ", "\"", "#", "<", ">", "'"}

PercentCode(c) ==
    CASE c = " " -> <<"%","2","0">>
      [] c = "\"" -> <<"%","2","2">>
      [] c = "#" -> <<"%","2","3">>
      [] c = "'" -> <<"%","2","7">>
      [] c = "<" -> <<"%","3","C">>
      [] c = ">" -> <<"%","3","E">>
      [] c = "?" -> <<"%","3","F">>
      [] c = "{" -> <<"%","7","B">>
      [] c = "}" -> <<"%","7","D">>

\* percent_encoding::utf8_percent_encode(s, set)
RECURSIVE PercentEncode(_, _)
PercentEncode(s, set) ==
    IF s = <<>> THEN <<>>
    ELSE (IF Head(s) \in set THEN PercentCode(Head(s)) ELSE <<Head(s)>>)
             \o PercentEncode(Tail(s), set)

\* url::parser::Parser::parse_path for a special scheme, as the list of
\* path segments it leaves: a segment ends at '/' or '\' or at the end of
\* the path; ".." removes the last segment, "." adds none, and either one
\* in last place leaves an empty last segment (a trailing '/').
\* p is the index of the segment's first character, e the end of the path.
RECURSIVE PathLoop(_, _, _, _)
PathLoop(s, p, e, segs) ==
    LET q == FirstIn(SubSeq(s, 1, e), p, {"/", "\\"})
        seg == SubSeq(s, p, q - 1)
        slash == q <= e
        dotdot == seg = <<".", ".">>
        dot == seg = <<".">>
        kept == IF dotdot
                THEN (IF segs = <<>> THEN segs ELSE SubSeq(segs, 1, Len(segs) - 1))
                ELSE segs
        out == IF dotdot \/ dot
               THEN (IF slash THEN kept ELSE Append(kept, <<>>))
               ELSE Append(kept, PercentEncode(seg, PathSet))
    IN IF slash THEN PathLoop(s, q + 1, e, out) ELSE out

RECURSIVE JoinPath(_)
JoinPath(segs) ==
    IF segs = <<>> THEN <<>>
    ELSE <<"/">> \o Head(segs) \o JoinPath(Tail(segs))

\* parse_path_start + parse_path: the path text s[p..e] (p > e: no path).
\* A special URL always has a non-empty path; a leading '/' or '\' is the
\* root's.
ParsePath(s, p, e) ==
    LET start == IF p <= e /\ s[p] \in {"/", "\\"} THEN p + 1 ELSE p
    IN JoinPath(PathLoop(s, start, e, <<>>))

\* Parser::parse_with_scheme for a special scheme other than file, then
\* after_double_slash: any run of '/' and '\' after "scheme:" is skipped;
\* the host runs to the first of : / \ ? #, must not be empty and is
\* lower-cased; then port, path, query (to '#') and fragment.
ParseWithScheme(scheme, s, from) ==
    LET a == FirstNotIn(s, from, {"/", "\\"})
        h == FirstIn(s, a, {":", "/", "\\", "?", "#"})
        rawHost == SubSeq(s, a, h - 1)
        hasPort == h <= Len(s) /\ s[h] = ":"
        pr == IF hasPort THEN ParsePort(s, h + 1, scheme)
              ELSE [ok |-> TRUE, port |-> -1, next |-> h]
        ps == pr.next
        qm == FirstIn(s, ps, {"?", "#"})
        hs == FirstIn(s, ps, {"#"})
        hasQuery == qm <= Len(s) /\ s[qm] = "?"
    IN IF rawHost = <<>> THEN ParseErr("EmptyHost")
       ELSE IF Range(rawHost) \cap ForbiddenHostChars # {}
            THEN ParseErr("IdnaError")
       ELSE IF ~pr.ok THEN ParseErr("InvalidPort")
       ELSE ParseOk([scheme |-> scheme,
                     host |-> LowerStr(rawHost),
                     port |-> pr.port,
                     path |-> ParsePath(s, ps, qm - 1),
                     query |-> IF hasQuery
                               THEN Some(PercentEncode(SubSeq(s, qm + 1, hs - 1),
                                                       SpecialQuerySet))
                               ELSE None,
                     fragment |-> IF hs <= Len(s)
                                  THEN Some(PercentEncode(SubSeq(s, hs + 1, Len(s)),
                                                          FragmentSet))
                                  ELSE None])

\* Input::new_trim_c0_control_and_space: the input without its leading and
\* trailing C0 control and space characters (of the input alphabet, the
\* space).
TrimChars == {" "}

TrimC0ControlAndSpace(s) ==
    LET a == FirstNotIn(s, 1, TrimChars)
        b == CHOOSE k \in 0..Len(s) :
                 /\ (k = 0 \/ s[k] \notin TrimChars)
                 /\ \A j \in (k + 1)..Len(s) : s[j] \in TrimChars
    IN SubSeq(s, a, b)

\* Parser::parse_url with no base URL, on the trimmed input.  parse_scheme
\* wants an ASCII letter, then letters, digits, + - . up to a ':'; anything
\* else is a relative reference, which has no base to resolve against.
ParseTrimmed(s) ==
    IF s = <<>> \/ ~IsAlpha(s[1]) THEN ParseErr("RelativeUrlWithoutBase")
    ELSE LET k == FirstNotIn(s, 1, SchemeChars) IN
         IF k > Len(s) \/ s[k] # ":" THEN ParseErr("RelativeUrlWithoutBase")
         ELSE ParseWithScheme(LowerStr(SubSeq(s, 1, k - 1)), s, k + 1)

\* url::Url::parse: the input is trimmed, then parsed.
ParseUrl(s) == ParseTrimmed(TrimC0ControlAndSpace(s))

\* A rendering that leaves the query out (path only).
UrlToStringNoQuery(u) ==
    u.scheme \o <<":", "/", "/">> \o u.host
        \o (IF u.port >= 0 THEN <<":">> \o IntToStr(u.port) ELSE <<>>)
        \o u.path
        \o (IF IsSome(u.fragment) THEN <<"#">> \o Unwrap(u.fragment) ELSE <<>>)

\* url.to_string(): Display for Url writes its serialization:
\* scheme "://" host [":" port] path ["?" query] ["#" fragment].
UrlToString(u) ==
    u.scheme \o <<":", "/", "/">> \o u.host
        \o (IF u.port >= 0 THEN <<":">> \o IntToStr(u.port) ELSE <<>>)
        \o u.path
        \o (IF IsSome(u.query) THEN <<"?">> \o Unwrap(u.query) ELSE <<>>)
        \o (IF IsSome(u.fragment) THEN <<"#">> \o Unwrap(u.fragment) ELSE <<>>)


(***************************************************************************)
(* chrono::Utc::now().to_rfc3339().  A clock reading is [secs, nanos]: the *)
(* seconds since the Unix epoch and the nanoseconds within the second.     *)
(***************************************************************************)
SecsPerDay == 86400
NanosPerSec == 1000000000

\* NaiveDate of a day count since 1970-01-01 (proleptic Gregorian calendar):
\* the day is placed in its 400-year cycle, then in its year counted from
\* 1 March, then in its month.
CivilFromDays(days) ==
    LET z == days + 719468
        era == z \div 146097
        doe == z - era * 146097
        yoe == (doe - doe \div 1460 + doe \div 36524 - doe \div 146096) \div 365
        doy == doe - (365 * yoe + yoe \div 4 - yoe \div 100)
        mp == (5 * doy + 2) \div 153
        d == doy - (153 * mp + 2) \div 5 + 1
        m == IF mp < 10 THEN mp + 3 ELSE mp - 9
        y == yoe + era * 400 + (IF m <= 2 THEN 1 ELSE 0)
    IN [year |-> y, month |-> m, day |-> d]

\* SecondsFormat::Millis: always three digits, the rest cut off.
FormatNanosMillis(nanos) == <<".">> \o Pad(nanos \div 1000000, 3)

\* SecondsFormat::Secs: no fraction.
FormatNanosSecs(nanos) == <<>>

\* The fraction of SecondsFormat::AutoSi: none for whole seconds, else 3, 6
\* or 9 digits, the fewest that lose nothing.
FormatNanos(nanos) ==
    IF nanos = 0 THEN <<>>
    ELSE IF nanos % 1000000 = 0 THEN <<".">> \o Pad(nanos \div 1000000, 3)
    ELSE IF nanos % 1000 = 0 THEN <<".">> \o Pad(nanos \div 1000, 6)
    ELSE <<".">> \o Pad(nanos, 9)

\* The offset of Utc, written "+00:00" (to_rfc3339 passes use_z = false).
UtcOffsetText == <<"+","0","0",":","0","0">>

\* DateTime<Utc>::to_rfc3339: YYYY-MM-DDTHH:MM:SS[.fraction]+00:00
to_rfc3339(t) ==
    LET date == CivilFromDays(t.secs \div SecsPerDay)
        sod == t.secs % SecsPerDay
    IN Pad(date.year, 4) \o <<"-">> \o Pad(date.month, 2) \o <<"-">>
           \o Pad(date.day, 2) \o <<"T">>
           \o Pad(sod \div 3600, 2) \o <<":">>
           \o Pad((sod % 3600) \div 60, 2) \o <<":">>
           \o Pad(sod % 60, 2)
           \o FormatNanos(t.nanos) \o UtcOffsetText

(***************************************************************************)
(* serde_json: the json! object of lines 9-14 and its encoding.  A Map is  *)
(* serde_json's default one, a BTreeMap: its entries are kept in the order *)
(* of their keys.  A map is modelled as the sequence of its <<key, value>> *)
(* entries in that order; every value here is a Value::String.             *)
(***************************************************************************)
kMessage == <<"m","e","s","s","a","g","e">>
kService == <<"s","e","r","v","i","c","e">>
kUrl == <<"u","r","l">>
kTimestamp == <<"t","i","m","e","s","t","a","m","p">>

\* The two string literals of lines 10 and 11.
MessageText == <<"H","e","l","l","o"," ","f","r","o","m"," ","R","u","s","t"," ","W","o","r","k","e","r","!">>
ServiceText == <<"r","u","s","t","-","w","o","r","k","e","r","-","t","e","m","p","l","a","t","e">>

\* Ord for char, on the characters keys are written with.
CharOrd(c) == CHOOSE k \in DOMAIN LowerChars : LowerChars[k] = c

\* Ord for str: a < b, lexicographically.
RECURSIVE StrLess(_, _)
StrLess(a, b) ==
    IF b = <<>> THEN FALSE
    ELSE IF a = <<>> THEN TRUE
    ELSE IF Head(a) # Head(b) THEN CharOrd(Head(a)) < CharOrd(Head(b))
    ELSE StrLess(Tail(a), Tail(b))

\* Map::insert: the entry replaces the one of the same key, or goes to its
\* place in key order.
RECURSIVE MapInsert(_, _, _)
MapInsert(map, k, v) ==
    IF map = <<>> THEN <<<<k, v>>>>
    ELSE IF Head(map)[1] = k THEN <<<<k, v>>>> \o Tail(map)
    ELSE IF StrLess(k, Head(map)[1]) THEN <<<<k, v>>>> \o map
    ELSE <<Head(map)>> \o MapInsert(Tail(map), k, v)

MapKeys(map) == { map[n][1] : n \in DOMAIN map }
MapGet(map, k) == map[CHOOSE n \in DOMAIN map : map[n][1] = k][2]

\* serde_json's string escaping, for printable ASCII: '"' and '\' get a
\* backslash.
RECURSIVE JsonEscape(_)
JsonEscape(s) ==
    IF s = <<>> THEN <<>>
    ELSE (IF Head(s) \in {"\"", "\\"} THEN <<"\\", Head(s)>> ELSE <<Head(s)>>)
             \o JsonEscape(Tail(s))

JsonString(s) == <<"\"">> \o JsonEscape(s) \o <<"\"">>

RECURSIVE JsonMembers(_)
JsonMembers(map) ==
    IF map = <<>> THEN <<>>
    ELSE JsonString(Head(map)[1]) \o <<":">> \o JsonString(Head(map)[2])
             \o (IF Tail(map) = <<>> THEN <<>> ELSE <<",">>)
             \o JsonMembers(Tail(map))

\* serde_json::to_string(&Value::Object(map)), compact.  It fails only on a
\* map key that is no string or a number that is not finite: a Value holds
\* neither, so for a Value the result is always Ok.
JsonToString(map) == [ok |-> TRUE, text |-> <<"{">> \o JsonMembers(map) \o <<"}">>]


(***************************************************************************)
(* The inputs of the model.  Request URLs: well-formed ones already in     *)
(* serialised form, well-formed ones that are not (case, default or zero-  *)
(* padded port, missing path, dot segments, backslashes, characters that   *)
(* get percent-encoded, leading and trailing spaces), and ones the parser  *)
(* rejects.                                                                *)
(***************************************************************************)
\* https://example.com/foo?x=1
U01 == <<"h","t","t","p","s",":","/","/","e","x","a","m","p","l","e",".","c","o","m","/","f","o","o","?","x","=","1">>
\* HTTPS://Example.COM
U02 == <<"H","T","T","P","S",":","/","/","E","x","a","m","p","l","e",".","C","O","M">>
\* http://a.b/
U03 == <<"h","t","t","p",":","/","/","a",".","b","/">>
\* http://a.b:80/
U04 == <<"h","t","t","p",":","/","/","a",".","b",":","8","0","/">>
\* http://a.b:8080
U05 == <<"h","t","t","p",":","/","/","a",".","b",":","8","0","8","0">>
\* https://a.b:0443/x
U06 == <<"h","t","t","p","s",":","/","/","a",".","b",":","0","4","4","3","/","x">>
\* https://a.b:99999/
U07 == <<"h","t","t","p","s",":","/","/","a",".","b",":","9","9","9","9","9","/">>
\* https://a.b:8x/
U08 == <<"h","t","t","p","s",":","/","/","a",".","b",":","8","x","/">>
\* /foo
U09 == <<"/","f","o","o">>
\* a.b/foo
U10 == <<"a",".","b","/","f","o","o">>
\* (the empty string)
U11 == <<>>
\* https:///
U12 == <<"h","t","t","p","s",":","/","/","/">>
\* https:a.b/x
U13 == <<"h","t","t","p","s",":","a",".","b","/","x">>
\* https://a.b\x\y
U14 == <<"h","t","t","p","s",":","/","/","a",".","b","\\","x","\\","y">>
\* https://a.b/a/../b
U15 == <<"h","t","t","p","s",":","/","/","a",".","b","/","a","/",".",".","/","b">>
\* https://a.b/a/./b/
U16 == <<"h","t","t","p","s",":","/","/","a",".","b","/","a","/",".","/","b","/">>
\* https://a.b/a b?c d#e f
U17 == <<"h","t","t","p","s",":","/","/","a",".","b","/","a"," ","b","?","c"," ","d","#","e"," ","f">>
\* https://a.b?q='x'
U18 == <<"h","t","t","p","s",":","/","/","a",".","b","?","q","=","'","x","'">>
\* https://a.b/?p=\
U19 == <<"h","t","t","p","s",":","/","/","a",".","b","/","?","p","=","\\">>
\* https://a.b/#
U20 == <<"h","t","t","p","s",":","/","/","a",".","b","/","#">>
\* https://a.b/x//y/?
U21 == <<"h","t","t","p","s",":","/","/","a",".","b","/","x","/","/","y","/","?">>
\* https://a b/
U22 == <<"h","t","t","p","s",":","/","/","a"," ","b","/">>
\* https://a.b/"q"
U23 == <<"h","t","t","p","s",":","/","/","a",".","b","/","\"","q","\"">>
\* ' https://a.b/'
U24 == <<" ","h","t","t","p","s",":","/","/","a",".","b","/">>
\* 'https://a.b/x '
U25 == <<"h","t","t","p","s",":","/","/","a",".","b","/","x"," ">>
\* 'https://a.b/#e  '
U26 == <<"h","t","t","p","s",":","/","/","a",".","b","/","#","e"," "," ">>
\* ' '
U27 == <<" ">>
\* HTTP://A.b:80
UC2 == <<"H","T","T","P",":","/","/","A",".","b",":","8","0">>

UrlInputs ==
    {U01, U02, U03, U04, U05, U06, U07, U08, U09, U10, U11, U12, U13,
    U14, U15, U16, U17, U18, U19, U20, U21, U22, U23, U24, U25, U26,
    U27}

\* What else a request and its environment carry: method, body, bindings.
Variants ==
    { [method |-> "GET", body |-> <<>>, bindings |-> {}],
      [method |-> "POST", body |-> <<"x">>, bindings |-> {"KV"}] }

Request(u, v) == [url |-> u, method |-> v.method, body |-> v.body]

\* The inputs of the concurrent specification: <<URL, variant>> pairs.
ConcInputs ==
    { <<U01, [method |-> "GET", body |-> <<>>, bindings |-> {}]>>,
      <<U01, [method |-> "POST", body |-> <<"x">>, bindings |-> {"KV"}]>>,
      <<UC2, [method |-> "GET", body |-> <<>>, bindings |-> {}]>>,
      <<U09, [method |-> "POST", body |-> <<"x">>, bindings |-> {"KV"}]>> }

\* Readings the clock starts from: the last nanosecond of 2024-02-29, and
\* the last millisecond of 2023.
InitClocks ==
    { [secs |-> 1709251199, nanos |-> 999999999],
      [secs |-> 1704067199, nanos |-> 999000000] }

\* The last millisecond before 2024-06-01T12:00:00.
ConcInitClocks == { [secs |-> 1717243199, nanos |-> 999000000] }

\* Steps the clock advances by: 1 ns, 1 ms, 1 s, 1 day.
Deltas ==
    { [secs |-> 0, nanos |-> 1], [secs |-> 0, nanos |-> 1000000],
      [secs |-> 1, nanos |-> 0], [secs |-> SecsPerDay, nanos |-> 0] }

Millisecond == [secs |-> 0, nanos |-> 1000000]

ClockAdd(t, d) ==
    [secs |-> t.secs + d.secs + (t.nanos + d.nanos) \div NanosPerSec,
     nanos |-> (t.nanos + d.nanos) % NanosPerSec]

(***************************************************************************)
(* The handler.                                                            *)
(***************************************************************************)
\* worker::Result<Response>: Ok(response) or Err(error).
Ok(resp) == [ok |-> TRUE, err |-> "", response |-> Some(resp)]
Err(e) == [ok |-> FALSE, err |-> e, response |-> None]

\* Request::url (line 6): the request's URL string parsed as a Url; a parse
\* error becomes worker::Error::RustError.
RequestUrl(r) == ParseUrl(r.url)

\* The json! object of lines 9-14, its entries inserted in source order.
JsonDataMissingKey(u, t) ==
    MapInsert(MapInsert(MapInsert(<<>>,
        kMessage, MessageText),
        kService, ServiceText),
        kUrl, UrlToString(u))

JsonDataOtherLiterals(u, t) ==
    MapInsert(MapInsert(MapInsert(MapInsert(<<>>,
        kMessage, LowerStr(MessageText)),
        kService, kService),
        kUrl, UrlToString(u)),
        kTimestamp, to_rfc3339(t))

JsonData(u, t) ==
    MapInsert(MapInsert(MapInsert(MapInsert(<<>>,
        kMessage, MessageText),
        kService, ServiceText),
        kUrl, UrlToString(u)),
        kTimestamp, to_rfc3339(t))

\* The status Response::from_json gives its response.
StatusOk == 200

ContentTypeJson == "application/json"

\* Response::from_json (line 17): the value encoded by serde_json::to_string
\* is the body of a 200 response with content-type application/json; an
\* encoding failure is Err(Error::Json).
FromJson(value) ==
    LET enc == JsonToString(value) IN
    IF enc.ok
    THEN Ok([status_code |-> StatusOk,
             headers |-> [content_type |-> ContentTypeJson],
             body |-> enc.text])
    ELSE Err("Json")

Init ==
    /\ clock \in InitClocks
    /\ ticks = 0
    /\ pc = [i \in Inv |-> "idle"]
    /\ req = [i \in Inv |-> None]
    /\ env = [i \in Inv |-> None]
    /\ url = [i \in Inv |-> None]
    /\ now = [i \in Inv |-> None]
    /\ data = [i \in Inv |-> None]
    /\ ret = [i \in Inv |-> None]
    /\ log = [i \in Inv |-> <<>>]

ConcInit ==
    /\ clock \in ConcInitClocks
    /\ ticks = 0
    /\ pc = [i \in Inv |-> "idle"]
    /\ req = [i \in Inv |-> None]
    /\ env = [i \in Inv |-> None]
    /\ url = [i \in Inv |-> None]
    /\ now = [i \in Inv |-> None]
    /\ data = [i \in Inv |-> None]
    /\ ret = [i \in Inv |-> None]
    /\ log = [i \in Inv |-> <<>>]

\* The wall clock advances by d (at most max times).
Tick(d, max) ==
    /\ ticks < max
    /\ clock' = ClockAdd(clock, d)
    /\ ticks' = ticks + 1
    /\ UNCHANGED <<pc, req, env, url, now, data, ret, log>>

\* The runtime invokes main(req, env, _ctx) for a request (line 4).
Start(i, u, v) ==
    /\ pc[i] = "idle"
    /\ pc' = [pc EXCEPT ![i] = "url"]
    /\ req' = [req EXCEPT ![i] = Some(Request(u, v))]
    /\ env' = [env EXCEPT ![i] = Some(v.bindings)]
    /\ UNCHANGED <<clock, ticks, url, now, data, ret, log>>

\* req.url().unwrap_or(default): a failure replaced by a default URL.
ExtractUrlOrDefault(i) ==
    /\ pc[i] = "url"
    /\ LET r == RequestUrl(Unwrap(req[i])) IN
       url' = [url EXCEPT ![i] = Some(IF r.ok THEN r.url ELSE ParseUrl(U03).url)]
    /\ pc' = [pc EXCEPT ![i] = "json"]
    /\ log' = [log EXCEPT ![i] = Append(@, "url")]
    /\ UNCHANGED <<clock, ticks, req, env, now, data, ret>>

\* A failed extraction tried once more before giving up.
ExtractUrlRetry(i) ==
    /\ pc[i] = "url"
    /\ LET r == RequestUrl(Unwrap(req[i])) IN
       IF r.ok
       THEN /\ url' = [url EXCEPT ![i] = Some(r.url)]
            /\ pc' = [pc EXCEPT ![i] = "json"]
            /\ ret' = ret
       ELSE IF log[i] = <<>>
       THEN UNCHANGED <<url, pc, ret>>
       ELSE /\ ret' = [ret EXCEPT ![i] = Some(Err("RustError"))]
            /\ pc' = [pc EXCEPT ![i] = "done"]
            /\ url' = url
    /\ log' = [log EXCEPT ![i] = Append(@, "url")]
    /\ UNCHANGED <<clock, ticks, req, env, now, data>>

\* `url` kept in a static shared by all invocations.
ExtractUrlShared(i) ==
    /\ pc[i] = "url"
    /\ LET r == RequestUrl(Unwrap(req[i])) IN
       IF r.ok
       THEN /\ url' = [j \in Inv |-> Some(r.url)]
            /\ pc' = [pc EXCEPT ![i] = "json"]
            /\ ret' = ret
       ELSE /\ ret' = [ret EXCEPT ![i] = Some(Err("RustError"))]
            /\ pc' = [pc EXCEPT ![i] = "done"]
            /\ url' = url
    /\ log' = [log EXCEPT ![i] = Append(@, "url")]
    /\ UNCHANGED <<clock, ticks, req, env, now, data>>

\* The clock read hoisted above the URL extraction.
ExtractUrlClockFirst(i) ==
    /\ pc[i] = "url"
    /\ now' = [now EXCEPT ![i] = Some(clock)]
    /\ LET r == RequestUrl(Unwrap(req[i])) IN
       IF r.ok
       THEN /\ url' = [url EXCEPT ![i] = Some(r.url)]
            /\ pc' = [pc EXCEPT ![i] = "json"]
            /\ ret' = ret
       ELSE /\ ret' = [ret EXCEPT ![i] = Some(Err("RustError"))]
            /\ pc' = [pc EXCEPT ![i] = "done"]
            /\ url' = url
    /\ log' = [log EXCEPT ![i] = @ \o <<"now", "url">>]
    /\ UNCHANGED <<clock, ticks, req, env, data>>

\* let url = req.url()?;  (line 6)
ExtractUrl(i) ==
    /\ pc[i] = "url"
    /\ LET r == RequestUrl(Unwrap(req[i])) IN
       IF r.ok
       THEN /\ url' = [url EXCEPT ![i] = Some(r.url)]
            /\ pc' = [pc EXCEPT ![i] = "json"]
            /\ ret' = ret
       ELSE /\ ret' = [ret EXCEPT ![i] = Some(Err("RustError"))]
            /\ pc' = [pc EXCEPT ![i] = "done"]
            /\ url' = url
    /\ log' = [log EXCEPT ![i] = Append(@, "url")]
    /\ UNCHANGED <<clock, ticks, req, env, now, data>>

\* let data = serde_json::json!({...});  (lines 9-14): the clock is read
\* while the object is built.
BuildData(i) ==
    /\ pc[i] = "json"
    /\ now' = [now EXCEPT ![i] = Some(clock)]
    /\ data' = [data EXCEPT ![i] = Some(JsonData(Unwrap(url[i]), clock))]
    /\ pc' = [pc EXCEPT ![i] = "respond"]
    /\ log' = [log EXCEPT ![i] = @ \o <<"now", "data">>]
    /\ UNCHANGED <<clock, ticks, req, env, url, ret>>

\* A handler that answers only GET with 200.
RespondGetOnly(i) ==
    /\ pc[i] = "respond"
    /\ LET r == FromJson(Unwrap(data[i])) IN
       ret' = [ret EXCEPT ![i] =
                  Some(IF Unwrap(req[i]).method = "GET" \/ ~r.ok THEN r
                       ELSE Ok([Unwrap(r.response) EXCEPT !.status_code = 405]))]
    /\ pc' = [pc EXCEPT ![i] = "done"]
    /\ log' = [log EXCEPT ![i] = Append(@, "serialize")]
    /\ UNCHANGED <<clock, ticks, req, env, url, now, data>>

\* Response::from_json(&data)  (line 17), the handler's return value.
Respond(i) ==
    /\ pc[i] = "respond"
    /\ ret' = [ret EXCEPT ![i] = Some(FromJson(Unwrap(data[i])))]
    /\ pc' = [pc EXCEPT ![i] = "done"]
    /\ log' = [log EXCEPT ![i] = Append(@, "serialize")]
    /\ UNCHANGED <<clock, ticks, req, env, url, now, data>>

\* One invocation of the handler, on any request, while the clock runs.
Next ==
    \/ \E d \in Deltas : Tick(d, MaxTicks)
    \/ \E u \in UrlInputs, v \in Variants : Start(1, u, v)
    \/ ExtractUrl(1)
    \/ BuildData(1)
    \/ Respond(1)

Spec == Init /\ [][Next]_vars

\* The handler has no await point: once invoked it runs to its return, so
\* each of its steps is weakly fair.  StepFrom(i, l) is a step of invocation
\* i away from label l: under Next these are exactly the steps of
\* ExtractUrl(i) (l = "url"), BuildData(i) (l = "json") and Respond(i)
\* (l = "respond"), and each is enabled whenever the invocation is at l.
Labels == {"idle", "url", "json", "respond", "done"}

StepFrom(i, l) ==
    /\ pc[i] = l
    /\ \E m \in Labels \ {l} : pc' = [pc EXCEPT ![i] = m]

FairSpec ==
    /\ Spec
    /\ WF_pc(StepFrom(1, "url"))
    /\ WF_pc(StepFrom(1, "json"))
    /\ WF_pc(StepFrom(1, "respond"))

\* NumInvocations invocations, their steps interleaved in any order.
ConcNext ==
    \/ Tick(Millisecond, MaxConcTicks)
    \/ \E i \in Inv, in \in ConcInputs : Start(i, in[1], in[2])
    \/ \E i \in Inv : ExtractUrl(i)
    \/ \E i \in Inv : BuildData(i)
    \/ \E i \in Inv : Respond(i)

ConcSpec == ConcInit /\ [][ConcNext]_vars


(***************************************************************************)
(* Reading a response back, as a client of the worker does: a JSON decoder *)
(* for an object of strings and an RFC 3339 date-time parser.  The         *)
(* properties below are stated on what these read out of the body.         *)
(***************************************************************************)
DecodeFail == [ok |-> FALSE, val |-> <<>>, next |-> 0]

\* A JSON string whose opening quote is at p - 1: the text up to the
\* closing quote, escapes undone.
RECURSIVE DecodeStringLoop(_, _, _)
DecodeStringLoop(s, p, acc) ==
    IF p > Len(s) THEN DecodeFail
    ELSE IF s[p] = "\"" THEN [ok |-> TRUE, val |-> acc, next |-> p + 1]
    ELSE IF s[p] = "\\"
         THEN IF p + 1 <= Len(s) /\ s[p + 1] \in {"\"", "\\", "/"}
              THEN DecodeStringLoop(s, p + 2, Append(acc, s[p + 1]))
              ELSE DecodeFail
    ELSE DecodeStringLoop(s, p + 1, Append(acc, s[p]))

DecodeString(s, p) ==
    IF p <= Len(s) /\ s[p] = "\"" THEN DecodeStringLoop(s, p + 1, <<>>)
    ELSE DecodeFail

\* The members "key":"value" from p on, up to the closing brace, which must
\* end the text.
RECURSIVE DecodeMembers(_, _, _)
DecodeMembers(s, p, acc) ==
    LET k == DecodeString(s, p) IN
    IF ~k.ok \/ k.next > Len(s) \/ s[k.next] # ":"
    THEN [ok |-> FALSE, members |-> <<>>]
    ELSE LET v == DecodeString(s, k.next + 1)
             got == Append(acc, <<k.val, v.val>>)
         IN IF ~v.ok \/ v.next > Len(s) THEN [ok |-> FALSE, members |-> <<>>]
            ELSE IF s[v.next] = "," THEN DecodeMembers(s, v.next + 1, got)
            ELSE IF s[v.next] = "}" /\ v.next = Len(s)
                 THEN [ok |-> TRUE, members |-> got]
            ELSE [ok |-> FALSE, members |-> <<>>]

\* A JSON text that is an object whose values are all strings.
JsonDecode(s) ==
    IF Len(s) < 2 \/ s[1] # "{" THEN [ok |-> FALSE, members |-> <<>>]
    ELSE IF s = <<"{", "}">> THEN [ok |-> TRUE, members |-> <<>>]
    ELSE DecodeMembers(s, 2, <<>>)

\* The response of a finished, successful invocation, and its decoded body.
Succeeded(i) == pc[i] = "done" /\ IsSome(ret[i]) /\ Unwrap(ret[i]).ok
Failed(i) == pc[i] = "done" /\ IsSome(ret[i]) /\ ~Unwrap(ret[i]).ok
ResponseOf(i) == Unwrap(Unwrap(ret[i]).response)
BodyOf(i) == JsonDecode(ResponseOf(i).body)
FieldOf(i, k) == MapGet(BodyOf(i).members, k)

FourKeys == {kMessage, kService, kUrl, kTimestamp}

\* Whether URL extraction succeeds on the request invocation i was given.
Extractable(i) == ParseUrl(Unwrap(req[i]).url).ok

----------------------------------------------------------------------------
(***************************************************************************)
(* C1.  Whenever URL extraction succeeds, the handler returns a response   *)
(* with status 200 whose body is a JSON object with exactly the four keys  *)
(* message, service, url and timestamp, each once.                         *)
(***************************************************************************)
C1_SuccessHasFourKeys ==
    \A i \in Inv :
        (pc[i] = "done" /\ Extractable(i)) =>
            /\ Succeeded(i)
            /\ ResponseOf(i).status_code = 200
            /\ BodyOf(i).ok
            /\ Len(BodyOf(i).members) = 4
            /\ MapKeys(BodyOf(i).members) = FourKeys

C1_Witness ==
    \E i \in Inv :
        /\ Succeeded(i)
        /\ Unwrap(req[i]).url = U01
        /\ MapKeys(BodyOf(i).members) = FourKeys

(***************************************************************************)
(* C2.  As claimed: the url field of a successful response equals the      *)
(* request's URL string, character for character.                          *)
(***************************************************************************)
C2_UrlEchoedExactly ==
    \A i \in Inv :
        Succeeded(i) => FieldOf(i, kUrl) = Unwrap(req[i]).url

(***************************************************************************)
(* C2, amended.  The url field of a successful response is the             *)
(* serialisation of the URL parsed from the request's URL string: it       *)
(* parses to the same URL (scheme, host, port, path, query, fragment) as   *)
(* the string received, and it is in serialised form, that is, parsing it  *)
(* and writing it again returns it unchanged.                              *)
(***************************************************************************)
C2_UrlIsSerialisation ==
    \A i \in Inv :
        Succeeded(i) =>
            LET f == FieldOf(i, kUrl)
                p == ParseUrl(f)
            IN /\ p.ok
               /\ p.url = ParseUrl(Unwrap(req[i]).url).url
               /\ UrlToString(p.url) = f

\* A request whose URL is not in serialised form (upper case, no path) has
\* been answered with the serialised form.
C2_Witness ==
    \E i \in Inv :
        /\ Succeeded(i)
        /\ Unwrap(req[i]).url = U02
        /\ FieldOf(i, kUrl) # U02
        /\ ParseUrl(FieldOf(i, kUrl)).ok

(***************************************************************************)
(* C3.  When URL extraction fails, the invocation ends in failure: it      *)
(* holds no url (no default is substituted), builds no payload and        *)
(* returns no response, so no 200.                                         *)
(***************************************************************************)
C3_ExtractionFailureFails ==
    \A i \in Inv :
        (pc[i] # "idle" /\ ~Extractable(i)) =>
            /\ url[i] = None
            /\ data[i] = None
            /\ pc[i] \in {"url", "done"}
            /\ pc[i] = "done" =>
                   /\ Failed(i)
                   /\ Unwrap(ret[i]).response = None

C3_Witness ==
    \E i \in Inv :
        /\ Failed(i)
        /\ ~Extractable(i)
        /\ Unwrap(req[i]).url = U07

(***************************************************************************)
(* C4.  An invocation fails only at URL extraction or at JSON encoding;    *)
(* the failure is what it returns, with no response, and the step that     *)
(* failed was executed once.                                               *)
(***************************************************************************)
Count(seq, x) == Cardinality({ n \in DOMAIN seq : seq[n] = x })

C4_OnlyTwoFailures ==
    \A i \in Inv :
        /\ Failed(i) =>
               /\ Unwrap(ret[i]).response = None
               /\ \/ /\ Unwrap(ret[i]).err = "RustError"
                     /\ ~Extractable(i)
                     /\ log[i] = <<"url">>
                  \/ /\ Unwrap(ret[i]).err = "Json"
                     /\ ~JsonToString(Unwrap(data[i])).ok
                     /\ log[i] = <<"url", "now", "data", "serialize">>
        /\ Count(log[i], "url") <= 1
        /\ Count(log[i], "serialize") <= 1

C4_Witness ==
    \E i \in Inv :
        /\ Failed(i)
        /\ Unwrap(ret[i]).err = "RustError"
        /\ Unwrap(req[i]).url = U12

(***************************************************************************)
(* C5.  In every successful response the message field is                 *)
(* "Hello from Rust Worker!" and the service field is                      *)
(* "rust-worker-template".                                                 *)
(***************************************************************************)
C5_LiteralFields ==
    \A i \in Inv :
        Succeeded(i) =>
            /\ FieldOf(i, kMessage) = MessageText
            /\ FieldOf(i, kService) = ServiceText

C5_Witness ==
    \E i \in Inv :
        /\ Succeeded(i)
        /\ ticks > 0
        /\ Unwrap(req[i]).method = "POST"
        /\ FieldOf(i, kMessage) = MessageText


(***************************************************************************)
(* An RFC 3339 date-time parser (RFC 3339, section 5.6), independent of    *)
(* the rendering above: date-fullyear "-" date-month "-" date-mday "T"     *)
(* hour ":" minute ":" second ["." 1*DIGIT] ("Z" / ("+" / "-") hh ":" mm)  *)
(***************************************************************************)
AllDigits(s) == \A k \in DOMAIN s : IsDigit(s[k])

RECURSIVE NumOf(_)
NumOf(s) ==
    IF s = <<>> THEN 0
    ELSE NumOf(SubSeq(s, 1, Len(s) - 1)) * 10 + DigitVal(s[Len(s)])

RECURSIVE Pow10(_)
Pow10(n) == IF n = 0 THEN 1 ELSE 10 * Pow10(n - 1)

IsLeapYear(y) == (y % 4 = 0 /\ y % 100 # 0) \/ y % 400 = 0

DaysInMonth(y, m) ==
    IF m = 2 THEN (IF IsLeapYear(y) THEN 29 ELSE 28)
    ELSE IF m \in {4, 6, 9, 11} THEN 30 ELSE 31

\* Days from 1970-01-01 to the first day of year y, then to y-m-d.
DaysBeforeYear(y) ==
    LET p == y - 1
    IN (p * 365 + p \div 4 - p \div 100 + p \div 400)
           - (1969 * 365 + 1969 \div 4 - 1969 \div 100 + 1969 \div 400)

RECURSIVE DaysBeforeMonth(_, _)
DaysBeforeMonth(y, m) ==
    IF m = 1 THEN 0 ELSE DaysBeforeMonth(y, m - 1) + DaysInMonth(y, m - 1)

DaysFromCivil(y, m, d) == DaysBeforeYear(y) + DaysBeforeMonth(y, m) + (d - 1)

Rfc3339Fail == [ok |-> FALSE, secs |-> 0, nanos |-> 0, offset |-> <<>>]

ParseRfc3339(s) ==
    IF Len(s) < 20 THEN Rfc3339Fail
    ELSE
    LET yy == SubSeq(s, 1, 4)
        mo == SubSeq(s, 6, 7)
        dd == SubSeq(s, 9, 10)
        hh == SubSeq(s, 12, 13)
        mi == SubSeq(s, 15, 16)
        ss == SubSeq(s, 18, 19)
        hasFrac == s[20] = "."
        fe == IF hasFrac THEN FirstNotIn(s, 21, Range(DigitChars)) ELSE 20
        frac == IF hasFrac THEN SubSeq(s, 21, fe - 1) ELSE <<>>
        off == SubSeq(s, fe, Len(s))
        shape ==
            /\ AllDigits(yy \o mo \o dd \o hh \o mi \o ss)
            /\ s[5] = "-" /\ s[8] = "-" /\ s[11] = "T"
            /\ s[14] = ":" /\ s[17] = ":"
            /\ hasFrac => (Len(frac) >= 1 /\ Len(frac) <= 9)
            /\ \/ off = <<"Z">>
               \/ /\ Len(off) = 6
                  /\ off[1] \in {"+", "-"}
                  /\ off[4] = ":"
                  /\ AllDigits(<<off[2], off[3], off[5], off[6]>>)
    IN IF ~shape THEN Rfc3339Fail
       ELSE LET y == NumOf(yy)
                m == NumOf(mo)
                d == NumOf(dd)
                valid ==
                    /\ m >= 1 /\ m <= 12
                    /\ d >= 1 /\ d <= DaysInMonth(y, m)
                    /\ NumOf(hh) <= 23 /\ NumOf(mi) <= 59 /\ NumOf(ss) <= 59
            IN IF ~valid THEN Rfc3339Fail
               ELSE [ok |-> TRUE,
                     secs |-> DaysFromCivil(y, m, d) * SecsPerDay
                                  + NumOf(hh) * 3600 + NumOf(mi) * 60 + NumOf(ss),
                     nanos |-> NumOf(frac) * Pow10(9 - Len(frac)),
                     offset |-> off]

(***************************************************************************)
(* C6.  The timestamp field of a successful response is an RFC 3339        *)
(* date-time with offset +00:00 that denotes the clock value the           *)
(* invocation read; the invocation reads the clock only after it has       *)
(* extracted the URL, and what it reads is the clock's value at that step. *)
(***************************************************************************)
TimestampDenotesReading(i) ==
    LET t == ParseRfc3339(FieldOf(i, kTimestamp))
    IN /\ t.ok
       /\ t.offset = <<"+", "0", "0", ":", "0", "0">>
       /\ IsSome(now[i])
       /\ [secs |-> t.secs, nanos |-> t.nanos] = Unwrap(now[i])

ClockReadAfterUrl(i) ==
    now'[i] # now[i] => (IsSome(url[i]) /\ now'[i] = Some(clock))

C6_TimestampIsClockReading ==
    /\ [](\A i \in Inv : Succeeded(i) => TimestampDenotesReading(i))
    /\ [][\A i \in Inv : ClockReadAfterUrl(i)]_vars

\* A response whose timestamp is 2024-03-01T00:00:00+00:00: the clock was
\* read one nanosecond after the last nanosecond of 29 February.
C6_Witness ==
    \E i \in Inv :
        /\ Succeeded(i)
        /\ Unwrap(now[i]) = [secs |-> 1709251200, nanos |-> 0]
        /\ ParseRfc3339(FieldOf(i, kTimestamp)).ok
        /\ SubSeq(FieldOf(i, kTimestamp), 1, 10)
               = <<"2","0","2","4","-","0","3","-","0","1">>


(***************************************************************************)
(* C7.  Two successful invocations whose clock readings differ carry       *)
(* different timestamp fields and equal message and service fields.        *)
(***************************************************************************)
C7_DistinctReadingsDistinctTimestamps ==
    \A i, j \in Inv :
        (Succeeded(i) /\ Succeeded(j) /\ now[i] # now[j]) =>
            /\ FieldOf(i, kTimestamp) # FieldOf(j, kTimestamp)
            /\ FieldOf(i, kMessage) = FieldOf(j, kMessage)
            /\ FieldOf(i, kService) = FieldOf(j, kService)

\* Two responses built one millisecond apart, within the same second.
C7_Witness ==
    \E i, j \in Inv :
        /\ Succeeded(i) /\ Succeeded(j)
        /\ Unwrap(now[j]) = ClockAdd(Unwrap(now[i]), Millisecond)
        /\ FieldOf(i, kTimestamp) # FieldOf(j, kTimestamp)

(***************************************************************************)
(* C8.  Invocations are independent.  Whatever the interleaving, what an   *)
(* invocation holds and returns is what the handler computes from its own  *)
(* request and its own clock reading alone, and a step of one invocation   *)
(* changes nothing another invocation holds.                               *)
(***************************************************************************)
\* main run alone on request r; `reading` is what its clock read returns,
\* if it gets that far.
MainAlone(r, reading) ==
    LET p == RequestUrl(r) IN
    IF ~p.ok THEN Err("RustError")
    ELSE FromJson(JsonData(p.url, Unwrap(reading)))

OwnState(i) ==
    LET r == Unwrap(req[i])
        p == RequestUrl(r)
    IN CASE pc[i] = "url" -> url[i] = None /\ data[i] = None /\ ret[i] = None
         [] pc[i] = "json" -> p.ok /\ url[i] = Some(p.url) /\ data[i] = None
         [] pc[i] = "respond" ->
                /\ url[i] = Some(p.url)
                /\ data[i] = Some(JsonData(p.url, Unwrap(now[i])))
         [] pc[i] = "done" -> ret[i] = Some(MainAlone(r, now[i]))

Locals(i) == <<req[i], env[i], url[i], now[i], data[i], ret[i], log[i]>>

C8_InvocationsIndependent ==
    /\ [](\A i \in Inv : pc[i] # "idle" => OwnState(i))
    /\ [][\A i \in Inv : pc'[i] = pc[i] => Locals(i)' = Locals(i)]_vars

\* Two invocations overlapped: j read the clock before i did and has not
\* returned yet, while i has returned.
C8_Witness ==
    \E i, j \in Inv :
        /\ Succeeded(i)
        /\ pc[j] = "respond"
        /\ Unwrap(req[i]).url # Unwrap(req[j]).url
        /\ Unwrap(now[j]).nanos < Unwrap(now[i]).nanos

(***************************************************************************)
(* C9.  The outcome depends on the request's URL and the clock reading     *)
(* alone: two invocations given the same URL string that read the same     *)
(* clock value (or read none) return the same, whatever the method, body   *)
(* and environment bindings.                                               *)
(***************************************************************************)
C9_OutcomeByUrlAndClock ==
    \A i, j \in Inv :
        (/\ pc[i] = "done" /\ pc[j] = "done"
         /\ Unwrap(req[i]).url = Unwrap(req[j]).url
         /\ now[i] = now[j]) => ret[i] = ret[j]

C9_Witness ==
    \E i, j \in Inv :
        /\ Succeeded(i) /\ Succeeded(j)
        /\ Unwrap(req[i]).url = Unwrap(req[j]).url
        /\ now[i] = now[j]
        /\ Unwrap(req[i]).method # Unwrap(req[j]).method
        /\ Unwrap(req[i]).body # Unwrap(req[j]).body
        /\ env[i] # env[j]
        /\ ret[i] = ret[j]

(***************************************************************************)
(* C10.  Every invocation terminates with exactly one outcome, a success   *)
(* response or a failure, which never changes afterwards.  Its steps run   *)
(* in the order URL extraction, clock read, payload assembly,              *)
(* serialization; an invocation that fails at URL extraction has done      *)
(* nothing else, so it has not read the clock.                             *)
(***************************************************************************)
StepOrder == <<"url", "now", "data", "serialize">>

IsPrefix(a, b) == Len(a) <= Len(b) /\ a = SubSeq(b, 1, Len(a))

OneOutcome(i) ==
    /\ IsSome(ret[i]) <=> pc[i] = "done"
    /\ IsSome(ret[i]) =>
           /\ Unwrap(ret[i]).ok <=> IsSome(Unwrap(ret[i]).response)
           /\ Unwrap(ret[i]).ok <=> Unwrap(ret[i]).err = ""
    /\ IsPrefix(log[i], StepOrder)
    /\ Succeeded(i) => log[i] = StepOrder
    /\ Failed(i) /\ ~Extractable(i) => (log[i] = <<"url">> /\ now[i] = None)
    /\ ~IsSome(now[i]) <=> Len(log[i]) <= 1

C10_TerminatesWithOneOutcome ==
    /\ [](\A i \in Inv : OneOutcome(i))
    /\ [][\A i \in Inv : pc[i] = "done" => (ret'[i] = ret[i] /\ pc'[i] = "done")]_vars
    /\ \A i \in {1} : (pc[i] # "idle") ~> (pc[i] = "done")

\* An invocation that failed at URL extraction, after the clock had moved.
C10_Witness ==
    \E i \in Inv :
        /\ Failed(i)
        /\ log[i] = <<"url">>
        /\ now[i] = None
        /\ ticks > 0

=============================================================================
